---- MODULE Spec2Model ----
(***************************************************************************)
(* Control Viewer: the point table, the history store, the WebSocket       *)
(* connection manager and the background simulation task of                *)
(* control-viewer-nicegui (api.py, database.py, utils.py, models.py).      *)
(*                                                                         *)
(* Numbers.  A Python float is modelled as an integer count of tenths      *)
(* (501 is 50.1), compared exactly.  Optional and loosely typed fields are *)
(* tagged pairs: None, Num(n), and BadValue for a JSON value that is not a *)
(* number (the WebSocket handler assigns message["value"] unvalidated).    *)
(***************************************************************************)
EXTENDS Integers, Sequences, FiniteSets, TLC

VARIABLES
    database,     \* the MemoryDatabase singleton (database.py:203)
    manager,      \* the ConnectionManager singleton (api.py:34)
    sockets,      \* per WebSocket: the state of its websocket_endpoint task
    tasks,        \* per task: the broadcast it is suspended in, if any
    sched,        \* the simulation_task coroutine: position and sleep argument
    now,          \* the wall clock datetime.now() reads
    probe,        \* a point handed to calculate_status, and the status returned
    ui_state      \* the UIState singleton of ui.py (ui.py:42)

vars == <<database, manager, sockets, tasks, sched, now, probe, ui_state>>

----------------------------------------------------------------------------
(* Values *)

None == <<"none", 0>>
Num(n) == <<"num", n>>
BadValue == <<"str", 0>>
IsNum(v) == v[1] = "num"

\* n units as tenths
T(n) == n * 10

TypeError == "TypeError"

PointStatus == {"unknown", "normal", "warning", "alarm", "error"}
PointType == {"sensor", "actuator", "scale", "{SOME_SCALE_NAME}"}

ControlPoint(id, value, unit, min_value, max_value, timestamp, status, type) ==
    [id |-> id, value |-> value, unit |-> unit, min_value |-> min_value,
     max_value |-> max_value, timestamp |-> timestamp, status |-> status,
     type |-> type]

SystemSettings(refresh_rate, data_retention_days) ==
    [refresh_rate |-> refresh_rate, data_retention_days |-> data_retention_days]

\* models.py:61-65
HistoricalData(point_id, timestamps, values) ==
    [point_id |-> point_id, timestamps |-> timestamps, values |-> values]

NoBody == HistoricalData("", <<>>, <<>>)

----------------------------------------------------------------------------
(* utils.calculate_status *)

\* The thresholds are min + 10% and 5% of the range; both sides of each
\* comparison are multiplied by 20 so that they stay integers.
calculate_status_strict(point) ==
    IF point.value = None \/ point.min_value = None \/ point.max_value = None
    THEN "unknown"
    ELSE IF ~IsNum(point.value) THEN TypeError
    ELSE LET v == point.value[2]
             lo == point.min_value[2]
             hi == point.max_value[2]
             range_size == hi - lo
         IN  IF v <= lo \/ v >= hi THEN "error"
             ELSE IF 20 * v <= 20 * lo + range_size \/ 20 * v >= 20 * hi - range_size
                  THEN "alarm"
             ELSE IF 20 * v < 20 * lo + 2 * range_size \/ 20 * v > 20 * hi - 2 * range_size
                  THEN "warning"
             ELSE "normal"

calculate_status(point) ==
    IF point.value = None \/ point.min_value = None \/ point.max_value = None
    THEN "unknown"
    ELSE IF ~IsNum(point.value) THEN TypeError
    ELSE LET v == point.value[2]
             lo == point.min_value[2]
             hi == point.max_value[2]
             range_size == hi - lo
             warn_low20 == 20 * lo + 2 * range_size
             warn_high20 == 20 * hi - 2 * range_size
             alarm_low20 == 20 * lo + range_size
             alarm_high20 == 20 * hi - range_size
         IN  IF v <= lo \/ v >= hi THEN "error"
             ELSE IF 20 * v <= alarm_low20 \/ 20 * v >= alarm_high20 THEN "alarm"
             ELSE IF 20 * v <= warn_low20 \/ 20 * v >= warn_high20 THEN "warning"
             ELSE "normal"

----------------------------------------------------------------------------
(* utils.generate_simulated_value *)

RaisedValue == <<"raise", 0>>

\* random.uniform(a, b) is drawn at its low end, its middle or its high end
Draws == {-1, 0, 1}

uniform(a, b, r) == IF r = -1 THEN a ELSE IF r = 1 THEN b ELSE (a + b) \div 2

\* round(x, 0) of Python 3 on tenths: to the nearest unit, halves to even
round0(x) ==
    LET q == x \div 10
        m == x % 10
    IN  IF m < 5 THEN 10 * q
        ELSE IF m > 5 THEN 10 * (q + 1)
        ELSE IF q % 2 = 0 THEN 10 * q ELSE 10 * (q + 1)

\* "degC" stands for the unit string of utils.py:98; no unit is ""
Units == {"degC", "kPa", "L/min", "rpm", "V", "A", "%"}

\* the half-width of the variation, in tenths (utils.py:95-107)
variation_width(unit) ==
    IF unit = "degC" THEN 5
    ELSE IF unit = "kPa" THEN 100
    ELSE IF unit = "L/min" THEN 20
    ELSE IF unit = "rpm" THEN 500
    ELSE IF unit = "%" THEN 20
    ELSE 50

\* round(new_value, 1) and round(new_value, 2) keep a count of tenths
round_for_unit(x, unit) ==
    IF unit \in {"degC", "V", "kPa", "L/min", "%"} THEN x
    ELSE IF unit = "A" THEN x
    ELSE round0(x)

Max2(a, b) == IF a >= b THEN a ELSE b
Min2(a, b) == IF a <= b THEN a ELSE b

generate_simulated_value(point, r) ==
    IF point.value = None
    THEN IF point.min_value # None /\ point.max_value # None
         THEN LET sum == point.min_value[2] + point.max_value[2]
              \* mid_point * 0.8 and mid_point * 1.2, cut to tenths
              IN  Num(uniform((sum * 4) \div 10, (sum * 6) \div 10, r))
         ELSE Num(uniform(T(0), T(100), r))
    ELSE IF ~IsNum(point.value) THEN RaisedValue
    ELSE LET w == variation_width(point.unit)
             variation == uniform(-w, w, r)
             v0 == point.value[2] + variation
             v1 == IF point.min_value # None THEN Max2(point.min_value[2], v0) ELSE v0
             v2 == IF point.max_value # None THEN Min2(point.max_value[2], v1) ELSE v1
         IN  Num(round_for_unit(v2, point.unit))

----------------------------------------------------------------------------
(* database.MemoryDatabase.  control_points is the dict in insertion order: *)
(* a sequence of [key, obj], obj naming the ControlPoint object the key     *)
(* holds; objects maps each such object to its fields, so that two keys     *)
(* holding one object change together.  historical_data and control_groups *)
(* are functions on the keys present.  save_data only writes the files     *)
(* load_data reads at start, and changes nothing of this state.            *)

Entries(db) == {db.control_points[i] : i \in DOMAIN db.control_points}
Keys(db) == {e.key : e \in Entries(db)}
Refs(db) == {e.obj : e \in Entries(db)}
HasPoint(db, k) == k \in Keys(db)
IndexOf(db, k) == CHOOSE i \in DOMAIN db.control_points : db.control_points[i].key = k
RefOf(db, k) == db.control_points[IndexOf(db, k)].obj
get_control_point(db, k) == db.objects[RefOf(db, k)]
get_all_control_points(db) == [i \in DOMAIN db.control_points |-> db.control_points[i].obj]

\* the name of a newly constructed object that is to be stored under key k
NewObj(db, k) ==
    LET used == {e.obj : e \in {x \in Entries(db) : x.key # k}}
    IN  CHOOSE o \in 1 .. (Cardinality(used) + 1) :
            o \notin used /\ \A q \in 1 .. (o - 1) : q \in used

\* objects no key holds any more are dropped
Collect(db) == [db EXCEPT !.objects = [o \in Refs(db) |-> db.objects[o]]]

\* self.control_points[k] = <object o>
SetItem(db, k, o) ==
    IF HasPoint(db, k)
    THEN [db EXCEPT !.control_points[IndexOf(db, k)].obj = o]
    ELSE [db EXCEPT !.control_points = Append(@, [key |-> k, obj |-> o])]

WithObject(db, o, point) ==
    [db EXCEPT !.objects = [x \in (DOMAIN db.objects) \cup {o} |->
                                IF x = o THEN point ELSE db.objects[x]]]

create_control_point(db, o) == SetItem(db, db.objects[o].id, o)

\* s[start:] of a Python list, s being 1-based here
SliceFrom(s, start) ==
    LET n == Len(s)
        from == IF start < 0 THEN Max2(n + start, 0) ELSE Min2(start, n)
    IN  SubSeq(s, from + 1, n)

max_records(settings) == settings.data_retention_days * 24 * 12

HistoryOf(db, k) == IF k \in DOMAIN db.historical_data THEN db.historical_data[k] ELSE <<>>

SetHistory(db, k, h) ==
    [db EXCEPT !.historical_data = [x \in (DOMAIN db.historical_data) \cup {k} |->
                                        IF x = k THEN h ELSE db.historical_data[x]]]

\* database.py:95-108; -max_records is 0 when max_records is 0
add_to_historical_data(db, point_id, point, tnow) ==
    IF point.value = None THEN db
    ELSE LET record == [timestamp |-> IF point.timestamp # None THEN point.timestamp[2] ELSE tnow,
                        value |-> point.value]
             appended == Append(HistoryOf(db, point_id), record)
             limit == max_records(db.system_settings)
         IN  SetHistory(db, point_id,
                        IF Len(appended) > limit THEN SliceFrom(appended, 0 - limit)
                        ELSE appended)

\* an update without the key test of database.py:90-91: it stores under any
\* point_id
update_control_point_upsert(db, point_id, o, tnow) ==
    add_to_historical_data(SetItem(db, point_id, o), point_id, db.objects[o], tnow)

\* the object o (already in db.objects) is stored under point_id
update_control_point(db, point_id, o, tnow) ==
    IF ~HasPoint(db, point_id) THEN db
    ELSE add_to_historical_data(SetItem(db, point_id, o), point_id, db.objects[o], tnow)

\* what a writer sets of the point stored under k
Triple(db, k) ==
    LET point == get_control_point(db, k)
    IN  <<point.value, point.status, point.timestamp>>

\* database.py:174-179; a datetime is always true, so a bound is tested
\* when it is not None
InRange(record, start_time, end_time) ==
    /\ ~(start_time # None /\ record.timestamp < start_time[2])
    /\ ~(end_time # None /\ record.timestamp > end_time[2])

\* list.sort(key=timestamp): stable
RECURSIVE SortByTimestamp(_)
SortByTimestamp(s) ==
    IF s = <<>> THEN <<>>
    ELSE LET rest == SortByTimestamp(SubSeq(s, 1, Len(s) - 1))
             last == s[Len(s)]
             before == SelectSeq(rest, LAMBDA r : r.timestamp <= last.timestamp)
             after == SelectSeq(rest, LAMBDA r : r.timestamp > last.timestamp)
         IN  before \o <<last>> \o after

\* database.py:162-189.  Without a bound the stored list itself is sorted;
\* HistoricalData validates values as List[float] and raises on a value
\* that is no number.
get_historical_data(db, point_id, start_time, end_time) ==
    IF point_id \notin DOMAIN db.historical_data
    THEN [db |-> db, raised |-> FALSE, data |-> HistoricalData(point_id, <<>>, <<>>)]
    ELSE LET stored == db.historical_data[point_id]
             filtering == start_time # None \/ end_time # None
             data == IF filtering
                     THEN SelectSeq(stored, LAMBDA r : InRange(r, start_time, end_time))
                     ELSE stored
             sorted == SortByTimestamp(data)
             db1 == IF filtering THEN db ELSE SetHistory(db, point_id, sorted)
         IN  IF \E i \in DOMAIN sorted : ~IsNum(sorted[i].value)
             THEN [db |-> db1, raised |-> TRUE, data |-> NoBody]
             ELSE [db |-> db1, raised |-> FALSE,
                   data |-> HistoricalData(point_id,
                                [i \in DOMAIN sorted |-> sorted[i].timestamp],
                                [i \in DOMAIN sorted |-> sorted[i].value])]

RECURSIVE RemoveFirst(_, _)
RemoveFirst(s, x) ==
    IF s = <<>> THEN <<>>
    ELSE IF Head(s) = x THEN Tail(s)
    ELSE <<Head(s)>> \o RemoveFirst(Tail(s), x)

\* a delete that also drops the history records of the id
delete_control_point_purge(db, point_id) ==
    IF ~HasPoint(db, point_id) THEN db
    ELSE [db EXCEPT
            !.control_points = SelectSeq(@, LAMBDA e : e.key # point_id),
            !.control_groups = [g \in DOMAIN @ |-> RemoveFirst(@[g], point_id)],
            !.historical_data = [k \in DOMAIN @ \ {point_id} |-> @[k]]]

\* database.py:113-126; list.remove takes out the first occurrence
delete_control_point(db, point_id) ==
    IF ~HasPoint(db, point_id) THEN db
    ELSE [db EXCEPT
            !.control_points = SelectSeq(@, LAMBDA e : e.key # point_id),
            !.control_groups = [g \in DOMAIN @ |-> RemoveFirst(@[g], point_id)]]

update_system_settings(db, settings) == [db EXCEPT !.system_settings = settings]

----------------------------------------------------------------------------
(* api.ConnectionManager.  A broadcast is suspended inside each send_text;  *)
(* between two sends of one broadcast nothing else runs.  The for loop      *)
(* walks the live list by position: idx is the position of the list         *)
(* iterator, cur the connection whose send is awaited.                      *)

NoMessage == [action |-> "none"]

NoTime == 0 - 1

\* log: the sends of the task's latest broadcast and how each ended.
\* stayed: the connections registered since that broadcast began; changed:
\* whether the registry changed while it ran.  response: the HTTP status a
\* REST handler answered with, body: the HistoricalData it returned.  seen: the latest generation time among the
\* envelopes cur had received when the send awaited began.
IdleTask ==
    [pc |-> "idle", message |-> NoMessage, idx |-> 0, cur |-> "", log |-> <<>>,
     stayed |-> {}, changed |-> FALSE, response |-> 0, body |-> NoBody,
     seen |-> NoTime]

Range(s) == {s[i] : i \in DOMAIN s}

connect(mgr, ws) == [mgr EXCEPT !.active_connections = Append(@, ws)]

disconnect(mgr, ws) == [mgr EXCEPT !.active_connections = RemoveFirst(@, ws)]

\* the time an envelope carries that was read from the clock when the
\* envelope was generated (api.py:79, 227), NoTime when it carries none
GeneratedAt(message) ==
    CASE message.action = "simulate" -> message.timestamp
      [] message.action = "update" -> message.data.timestamp[2]
      [] OTHER -> NoTime

\* the envelopes whose send_text to c has returned
Delivered(c) ==
    {tasks[t].message :
        t \in {u \in DOMAIN tasks : [conn |-> c, ok |-> TRUE] \in Range(tasks[u].log)}}

\* the latest generation time among them
SeenBy(c) ==
    LET times == {GeneratedAt(m) : m \in Delivered(c)} \cup {NoTime}
    IN  CHOOSE x \in times : \A y \in times : y <= x

\* broadcast up to its first await
begin_broadcast(mgr, message) ==
    LET conns == mgr.active_connections
    IN  IF conns = <<>>
        THEN [IdleTask EXCEPT !.message = message]
        ELSE [IdleTask EXCEPT !.pc = "sending", !.message = message, !.idx = 1,
                              !.cur = conns[1], !.stayed = Range(conns),
                              !.seen = SeenBy(conns[1])]

\* a broadcast whose send raises out of the loop
after_send_uncaught(task, mgr, ok) ==
    LET log1 == Append(task.log, [conn |-> task.cur, ok |-> ok])
        conns == mgr.active_connections
    IN  IF ~ok
        THEN [task EXCEPT !.log = log1, !.pc = "raised", !.cur = "", !.seen = NoTime]
        ELSE IF task.idx < Len(conns)
        THEN [task EXCEPT !.log = log1, !.idx = @ + 1, !.cur = conns[task.idx + 1],
                          !.seen = SeenBy(conns[task.idx + 1])]
        ELSE [task EXCEPT !.log = log1, !.pc = "idle", !.cur = "", !.seen = NoTime]

\* broadcast from the return (ok) or the raise (~ok) of the awaited send to
\* its next await or its end
after_send(task, mgr, ok) ==
    LET log1 == Append(task.log, [conn |-> task.cur, ok |-> ok])
        conns == mgr.active_connections
    IN  IF task.idx < Len(conns)
        THEN [task EXCEPT !.log = log1, !.idx = @ + 1, !.cur = conns[task.idx + 1],
                          !.seen = SeenBy(conns[task.idx + 1])]
        ELSE [task EXCEPT !.log = log1, !.pc = "idle", !.cur = "", !.seen = NoTime]

\* the registry changed: what the broadcasts in flight record of it
NoteRegistry(tks, removed) ==
    [t \in DOMAIN tks |->
        IF tks[t].pc = "sending"
        THEN [tks[t] EXCEPT !.stayed = @ \ removed, !.changed = TRUE]
        ELSE tks[t]]

----------------------------------------------------------------------------
(* The tasks *)

PointIds == {"p1", "p2"}
GroupIds == {"g1"}
Conns == {"w1", "w2", "w3"}
RestTasks == {"r1"}
SchedTask == "sched"
TaskIds == Conns \cup RestTasks \cup {SchedTask}

\* send_text to c returns; it raises when the peer is gone or the socket closed
SendOk(c) == sockets[c].peer = "up" /\ sockets[c].pc \in {"receive", "broadcast", "reply"}

----------------------------------------------------------------------------
(* api.py REST handlers, each up to its first await that suspends *)

\* api.py:50-69
CreatePoint(r, body) ==
    /\ tasks[r].pc = "idle"
    /\ LET p1 == IF body.timestamp = None THEN [body EXCEPT !.timestamp = Num(now)] ELSE body
           p2 == IF p1.status = "unknown" /\ p1.value # None
                 THEN [p1 EXCEPT !.status = calculate_status(p1)]
                 ELSE p1
           o == NewObj(database, p2.id)
       IN  /\ database' = Collect(create_control_point(WithObject(database, o, p2), o))
           /\ tasks' = [tasks EXCEPT ![r] =
                  [begin_broadcast(manager, [action |-> "create", data |-> p2])
                      EXCEPT !.response = 200]]
    /\ UNCHANGED <<manager, sockets, sched, now, probe, ui_state>>

\* an update without the existence check of api.py:74-76: it stores the body
UpdatePoint_upsert(r, point_id, body) ==
    /\ tasks[r].pc = "idle"
    /\ LET p1 == [body EXCEPT !.timestamp = Num(now)]
           p2 == IF p1.value # None
                 THEN [p1 EXCEPT !.status = calculate_status(p1)]
                 ELSE p1
           o == NewObj(database, point_id)
           stored == SetItem(WithObject(database, o, p2), point_id, o)
       IN  /\ database' = Collect(add_to_historical_data(stored, point_id, p2, now))
           /\ tasks' = [tasks EXCEPT ![r] =
                  [begin_broadcast(manager, [action |-> "update", data |-> p2])
                      EXCEPT !.response = 200]]
    /\ UNCHANGED <<manager, sockets, sched, now, probe, ui_state>>

\* api.py:71-93
UpdatePoint(r, point_id, body) ==
    /\ tasks[r].pc = "idle"
    /\ IF ~HasPoint(database, point_id)
       THEN /\ tasks' = [tasks EXCEPT ![r] = [IdleTask EXCEPT !.response = 404]]
            /\ UNCHANGED database
       ELSE LET p1 == [body EXCEPT !.timestamp = Num(now)]
                p2 == IF p1.value # None
                      THEN [p1 EXCEPT !.status = calculate_status(p1)]
                      ELSE p1
                o == NewObj(database, point_id)
            IN  /\ database' = Collect(update_control_point(
                                   WithObject(database, o, p2), point_id, o, now))
                /\ tasks' = [tasks EXCEPT ![r] =
                       [begin_broadcast(manager, [action |-> "update", data |-> p2])
                           EXCEPT !.response = 200]]
    /\ UNCHANGED <<manager, sockets, sched, now, probe, ui_state>>

\* api.py:95-108
DeletePoint(r, point_id) ==
    /\ tasks[r].pc = "idle"
    /\ IF ~HasPoint(database, point_id)
       THEN /\ tasks' = [tasks EXCEPT ![r] = [IdleTask EXCEPT !.response = 404]]
            /\ UNCHANGED database
       ELSE /\ database' = Collect(delete_control_point(database, point_id))
            /\ tasks' = [tasks EXCEPT ![r] =
                   [begin_broadcast(manager, [action |-> "delete", data |-> [id |-> point_id]])
                       EXCEPT !.response = 200]]
    /\ UNCHANGED <<manager, sockets, sched, now, probe, ui_state>>

\* api.py:147-159
GetHistory(r, point_id, start_time, end_time) ==
    /\ tasks[r].pc = "idle"
    /\ IF ~HasPoint(database, point_id)
       THEN /\ tasks' = [tasks EXCEPT ![r] = [IdleTask EXCEPT !.response = 404]]
            /\ UNCHANGED database
       ELSE LET history == get_historical_data(database, point_id, start_time, end_time)
            IN  /\ database' = history.db
                /\ tasks' = [tasks EXCEPT ![r] =
                       [IdleTask EXCEPT !.response = IF history.raised THEN 500 ELSE 200,
                                        !.body = history.data]]
    /\ UNCHANGED <<manager, sockets, sched, now, probe, ui_state>>

\* api.py:167-171
UpdateSettings(settings) ==
    /\ database' = update_system_settings(database, settings)
    /\ UNCHANGED <<manager, sockets, tasks, sched, now, probe, ui_state>>

\* the awaited send of a REST handler's broadcast returns or raises
RestSendComplete(r) ==
    /\ r \in RestTasks
    /\ tasks[r].pc = "sending"
    /\ tasks' = [tasks EXCEPT ![r] = after_send(@, manager, SendOk(tasks[r].cur))]
    /\ UNCHANGED <<database, manager, sockets, sched, now, probe, ui_state>>

----------------------------------------------------------------------------
(* api.websocket_endpoint.  sockets[w].pc: "none" before the connection,    *)
(* "receive" awaiting receive_text, "broadcast" awaiting the broadcast of   *)
(* an update, "reply" awaiting the send_text of an error reply, "ended"     *)
(* after the handler returned or raised.  peer: whether the client is       *)
(* still there.  A WebSocket object is not used again once its handler      *)
(* has ended.                                                               *)

NoSocket == [pc |-> "none", peer |-> "up"]

\* api.py:175-177, ConnectionManager.connect
WsConnect(w) ==
    /\ sockets[w].pc = "none"
    /\ manager' = connect(manager, w)
    /\ sockets' = [sockets EXCEPT ![w].pc = "receive"]
    /\ tasks' = NoteRegistry(tasks, {})
    /\ UNCHANGED <<database, sched, now, probe, ui_state>>

\* the client goes away
PeerClose(w) ==
    /\ sockets[w].pc \in {"receive", "broadcast", "reply"}
    /\ sockets[w].peer = "up"
    /\ sockets' = [sockets EXCEPT ![w].peer = "gone"]
    /\ UNCHANGED <<database, manager, tasks, sched, now, probe, ui_state>>

\* api.py:180, 207-208: receive_text raises WebSocketDisconnect
WsDisconnected(w) ==
    /\ sockets[w].pc = "receive"
    /\ sockets[w].peer = "gone"
    /\ manager' = disconnect(manager, w)
    /\ sockets' = [sockets EXCEPT ![w].pc = "ended"]
    /\ tasks' = NoteRegistry(tasks, {w})
    /\ UNCHANGED <<database, sched, now, probe, ui_state>>

\* an update_value that leaves the status as it was
WsUpdateValue_stale(w, point_id, new_value) ==
    /\ sockets[w].pc = "receive"
    /\ sockets[w].peer = "up"
    /\ IF ~HasPoint(database, point_id)
       THEN UNCHANGED <<database, sockets, tasks>>
       ELSE LET o == RefOf(database, point_id)
                p1 == [database.objects[o] EXCEPT !.value = new_value,
                                                  !.timestamp = Num(now)]
                status == calculate_status(p1)
                p2 == p1
            IN  IF status = TypeError
                THEN /\ database' = WithObject(database, o, p1)
                     /\ sockets' = [sockets EXCEPT ![w].pc = "reply"]
                     /\ UNCHANGED tasks
                ELSE /\ database' = Collect(update_control_point(
                                        WithObject(database, o, p2), point_id, o, now))
                     /\ tasks' = [tasks EXCEPT ![w] =
                            begin_broadcast(manager, [action |-> "update", data |-> p2])]
                     /\ sockets' = [sockets EXCEPT ![w].pc =
                            IF manager.active_connections = <<>> THEN "receive"
                            ELSE "broadcast"]
    /\ UNCHANGED <<manager, sched, now, probe, ui_state>>

\* api.py:181-205 for a message {"action": "update_value", "id", "value"}.
\* get_control_point returns the stored object, which is assigned in place.
WsUpdateValue(w, point_id, new_value) ==
    /\ sockets[w].pc = "receive"
    /\ sockets[w].peer = "up"
    /\ IF ~HasPoint(database, point_id)
       THEN UNCHANGED <<database, sockets, tasks>>
       ELSE LET o == RefOf(database, point_id)
                p1 == [database.objects[o] EXCEPT !.value = new_value,
                                                  !.timestamp = Num(now)]
                status == calculate_status(p1)
                p2 == [p1 EXCEPT !.status = status]
            IN  IF status = TypeError
                THEN /\ database' = WithObject(database, o, p1)
                     /\ sockets' = [sockets EXCEPT ![w].pc = "reply"]
                     /\ UNCHANGED tasks
                ELSE /\ database' = Collect(update_control_point(
                                        WithObject(database, o, p2), point_id, o, now))
                     /\ tasks' = [tasks EXCEPT ![w] =
                            begin_broadcast(manager, [action |-> "update", data |-> p2])]
                     /\ sockets' = [sockets EXCEPT ![w].pc =
                            IF manager.active_connections = <<>> THEN "receive"
                            ELSE "broadcast"]
    /\ UNCHANGED <<manager, sched, now, probe, ui_state>>

\* api.py:182-186, 201-205: a text that is no JSON object with the keys read
WsMalformed(w) ==
    /\ sockets[w].pc = "receive"
    /\ sockets[w].peer = "up"
    /\ sockets' = [sockets EXCEPT ![w].pc = "reply"]
    /\ UNCHANGED <<database, manager, tasks, sched, now, probe, ui_state>>

\* the awaited send of the handler's broadcast returns or raises
WsSendComplete(w) ==
    /\ sockets[w].pc = "broadcast"
    /\ tasks[w].pc = "sending"
    /\ LET task == after_send(tasks[w], manager, SendOk(tasks[w].cur))
       IN  /\ tasks' = [tasks EXCEPT ![w] = task]
           /\ sockets' = [sockets EXCEPT ![w].pc =
                  IF task.pc = "sending" THEN "broadcast" ELSE "receive"]
    /\ UNCHANGED <<database, manager, sched, now, probe, ui_state>>

\* api.py:203-205: the error reply is sent
WsReplySent(w) ==
    /\ sockets[w].pc = "reply"
    /\ sockets[w].peer = "up"
    /\ sockets' = [sockets EXCEPT ![w].pc = "receive"]
    /\ UNCHANGED <<database, manager, tasks, sched, now, probe, ui_state>>

\* api.py:203-208: the error reply raises WebSocketDisconnect
WsReplyDisconnected(w) ==
    /\ sockets[w].pc = "reply"
    /\ sockets[w].peer = "gone"
    /\ manager' = disconnect(manager, w)
    /\ sockets' = [sockets EXCEPT ![w].pc = "ended"]
    /\ tasks' = NoteRegistry(tasks, {w})
    /\ UNCHANGED <<database, sched, now, probe, ui_state>>

\* api.py:203-208: the error reply raises another exception, which
\* "except WebSocketDisconnect" lets through
WsReplyRaised(w) ==
    /\ sockets[w].pc = "reply"
    /\ sockets[w].peer = "gone"
    /\ sockets' = [sockets EXCEPT ![w].pc = "ended"]
    /\ UNCHANGED <<database, manager, tasks, sched, now, probe, ui_state>>

----------------------------------------------------------------------------
(* api.simulate_data and api.simulation_task.  sched.pc: "ready" at the top *)
(* of the loop, "broadcast" awaiting the simulate broadcast, "sleep" in     *)
(* asyncio.sleep(sched.delay).  sched.settings is the settings object read  *)
(* at the top of the loop; sched.issued counts the broadcasts the sweep     *)
(* called, sched.raised tells that the sweep ended in the except clause.    *)
(* sched.stop_requested tells that the task was asked to stop.              *)
(* sched.loops counts the simulation tasks that were created: one by        *)
(* lifespan (main.py:54-57), whose position sched.pc is.                    *)

\* api.py:216-222 from the i-th point of the snapshot on; draws[i] is the
\* random draw of the i-th point
RECURSIVE simulate_points(_, _, _, _, _)
simulate_points(db, points, i, draws, tnow) ==
    IF i > Len(points) THEN [db |-> db, raised |-> FALSE]
    ELSE LET o == points[i]
             point == db.objects[o]
         IN  IF point.type # "sensor"
             THEN simulate_points(db, points, i + 1, draws, tnow)
             ELSE LET v == generate_simulated_value(point, draws[i])
                      p1 == [point EXCEPT !.value = v, !.timestamp = Num(tnow)]
                      status == calculate_status(p1)
                      p2 == [p1 EXCEPT !.status = status]
                  IN  IF v = RaisedValue THEN [db |-> db, raised |-> TRUE]
                      ELSE IF status = TypeError
                      THEN [db |-> WithObject(db, o, p1), raised |-> TRUE]
                      ELSE simulate_points(
                               update_control_point(WithObject(db, o, p2), p2.id, o, tnow),
                               points, i + 1, draws, tnow)

\* a simulation task without the except clause of api.py:241: the loop ends
SchedTick_uncaught(draws) ==
    /\ sched.pc = "ready"
    /\ LET settings == database.system_settings
           swept == simulate_points(database, get_all_control_points(database), 1, draws, now)
           task == begin_broadcast(manager, [action |-> "simulate", timestamp |-> now])
       IN  /\ database' = Collect(swept.db)
           /\ IF swept.raised
              THEN /\ sched' = [pc |-> "done", delay |-> 0, settings |-> settings,
                                issued |-> 0, raised |-> TRUE,
                                stop_requested |-> sched.stop_requested,
                                loops |-> sched.loops]
                   /\ UNCHANGED tasks
              ELSE /\ sched' = [pc |-> IF task.pc = "sending" THEN "broadcast" ELSE "sleep",
                                delay |-> settings.refresh_rate, settings |-> settings,
                                issued |-> 1, raised |-> FALSE,
                                stop_requested |-> sched.stop_requested,
                                loops |-> sched.loops]
                   /\ tasks' = [tasks EXCEPT ![SchedTask] = task]
    /\ UNCHANGED <<manager, sockets, now, probe, ui_state>>

\* api.py:235-243 from the top of the loop to the first await that suspends
SchedTick(draws) ==
    /\ sched.pc = "ready"
    /\ LET settings == database.system_settings
           swept == simulate_points(database, get_all_control_points(database), 1, draws, now)
           task == begin_broadcast(manager, [action |-> "simulate", timestamp |-> now])
       IN  /\ database' = Collect(swept.db)
           /\ IF swept.raised
              THEN /\ sched' = [pc |-> "sleep", delay |-> 5, settings |-> settings,
                                issued |-> 0, raised |-> TRUE,
                                stop_requested |-> sched.stop_requested,
                                loops |-> sched.loops]
                   /\ UNCHANGED tasks
              ELSE /\ sched' = [pc |-> IF task.pc = "sending" THEN "broadcast" ELSE "sleep",
                                delay |-> settings.refresh_rate, settings |-> settings,
                                issued |-> 1, raised |-> FALSE,
                                stop_requested |-> sched.stop_requested,
                                loops |-> sched.loops]
                   /\ tasks' = [tasks EXCEPT ![SchedTask] = task]
    /\ UNCHANGED <<manager, sockets, now, probe, ui_state>>

\* the awaited send of the simulate broadcast returns or raises
SchedSendComplete ==
    /\ sched.pc = "broadcast"
    /\ tasks[SchedTask].pc = "sending"
    /\ LET task == after_send(tasks[SchedTask], manager, SendOk(tasks[SchedTask].cur))
       IN  /\ tasks' = [tasks EXCEPT ![SchedTask] = task]
           /\ sched' = [sched EXCEPT !.pc = IF task.pc = "sending" THEN "broadcast" ELSE "sleep"]
    /\ UNCHANGED <<database, manager, sockets, now, probe, ui_state>>

\* stop_simulation(), as tests/test_simulation.py:65-78 calls it: api.py
\* defines no such function and no SIMULATION_RUNNING flag, and the loop of
\* api.py:235 tests nothing, so the request changes nothing the task reads
StopSimulation ==
    /\ ~sched.stop_requested
    /\ sched' = [sched EXCEPT !.stop_requested = TRUE]
    /\ UNCHANGED <<database, manager, sockets, tasks, now, probe, ui_state>>

\* api.py:246-248, start_simulation: asyncio.create_task(simulation_task())
StartSimulation ==
    /\ sched' = [sched EXCEPT !.loops = @ + 1]
    /\ UNCHANGED <<database, manager, sockets, tasks, now, probe, ui_state>>

\* asyncio.sleep returns
SchedWake ==
    /\ sched.pc = "sleep"
    /\ sched' = [sched EXCEPT !.pc = "ready"]
    /\ UNCHANGED <<database, manager, sockets, tasks, now, probe, ui_state>>

----------------------------------------------------------------------------
(* The wall clock *)

ClockTick ==
    /\ now' = now + 1
    /\ UNCHANGED <<database, manager, sockets, tasks, sched, probe, ui_state>>

\* the wall clock is set back (datetime.now() is local time, not monotonic)
ClockBack ==
    /\ now > 0
    /\ now' = now - 1
    /\ UNCHANGED <<database, manager, sockets, tasks, sched, probe, ui_state>>

----------------------------------------------------------------------------
(* ui.py, the dashboard.  ui_state.control_cards is the container element:  *)
(* not made before create_dashboard, then with the cards it holds; a card   *)
(* is the point id it was created for and the (value, status, timestamp)    *)
(* it shows.  notice tells which label and button a clear() was followed    *)
(* by.  card_elements maps point ids to card handles; a handle whose card   *)
(* is no more in the container is stale.  ops and result are the log of the *)
(* last call of refresh_dashboard: the ids it created, removed and redrew   *)
(* a card for, in order, and how the call ended; fetched is the response of *)
(* the last call that was not dropped.  stale_raises is what the NiceGUI     *)
(* release in use does when a card that is no more in its container is      *)
(* deleted.                                                                 *)

\* ui.py:39
refresh_cooldown == 10

NoOps == [created |-> <<>>, removed |-> <<>>, redrawn |-> <<>>]

\* GET /control-points as refresh_dashboard sees it: a JSON list of points,
\* a JSON value that is no list, a body that is no JSON, or no response
JsonList(points) == [kind |-> "list", points |-> points]
JsonOther == [kind |-> "other", points |-> <<>>]
NotJson == [kind |-> "text", points |-> <<>>]
NoResponse == [kind |-> "error", points |-> <<>>]

\* ui.py:23, control_cards = None
NoContainer == [made |-> FALSE, children |-> {}]

\* ui.py:21-39, UIState.__init__; card_elements is added by ui.py:133-134.
\* connected_websocket: whether the attribute holds a connection (ui.py:25,
\* None at first); connecting: the timers whose call of connect_websocket
\* awaits websockets.connect; connections: the client connections that are
\* open; listeners: the listener tasks that run; timers: the timers that
\* connect_websocket itself added.
NewUIState ==
    [control_cards |-> NoContainer, notice |-> "none", points_by_id |-> <<>>,
     card_elements |-> <<>>, last_refresh_time |-> 0, ops |-> NoOps,
     result |-> "none", raised |-> FALSE, fetched |-> NoResponse,
     stale_raises |-> FALSE,
     connected_websocket |-> FALSE, connecting |-> {}, connections |-> 0,
     listeners |-> 0, timers |-> {}]

\* ui.py:92-101: the page gets a new, empty container
create_dashboard(st) ==
    [st EXCEPT !.control_cards = [made |-> TRUE, children |-> {}],
               !.notice = "none"]

\* what refresh_dashboard compares (ui.py:159-163)
Shown(point) == <<point.value, point.status, point.timestamp>>

\* ui.py:209-274: a point with both bounds, max above min, is drawn with a
\* progress bar computed from (value - min_value), a TypeError for a value
\* that is no number
create_control_card(point) ==
    [raised |-> /\ point.min_value # None
                /\ point.max_value # None
                /\ point.max_value[2] > point.min_value[2]
                /\ ~IsNum(point.value),
     card |-> [id |-> point.id, shown |-> Shown(point)]]

Rendered(st) ==
    {card.id : card \in st.control_cards.children}

\* Element.clear() of the container, and the label and button added after
clear(st, notice) ==
    IF ~st.control_cards.made THEN st
    ELSE [st EXCEPT !.control_cards.children = {}, !.notice = notice]

\* Element.delete() of a card handle.  NiceGUI removes the element from its
\* parent's children; for an element that a clear() already removed this
\* is a ValueError in some releases and nothing in others: stale_raises.
delete(st, card, stale_raises) ==
    IF card \in st.control_cards.children
    THEN [st EXCEPT !.control_cards.children = @ \ {card}]
    ELSE IF stale_raises THEN [st EXCEPT !.raised = TRUE] ELSE st

Without(f, k) == [j \in DOMAIN f \ {k} |-> f[j]]
With(f, k, v) == [j \in DOMAIN f \cup {k} |-> IF j = k THEN v ELSE f[j]]

\* ui.py:130; the ids of a response are distinct here, so the dict keeps
\* the order of the list
new_points_by_id(points) ==
    [k \in {points[i].id : i \in DOMAIN points} |->
        points[CHOOSE i \in DOMAIN points :
                  /\ points[i].id = k
                  /\ \A j \in DOMAIN points : points[j].id = k => j <= i]]

\* a set of ids in the order a Python set yields them: any order, told by
\* its first element
RECURSIVE InOrder(_, _)
InOrder(ids, first) ==
    IF ids = {} THEN <<>>
    ELSE LET k == IF first \in ids THEN first ELSE CHOOSE j \in ids : TRUE
         IN  <<k>> \o InOrder(ids \ {k}, first)

\* ui.py:147-151
RECURSIVE remove_points(_, _, _)
remove_points(st, points_to_remove, stale_raises) ==
    IF points_to_remove = <<>> \/ st.raised THEN st
    ELSE LET point_id == Head(points_to_remove)
             s1 == IF point_id \in DOMAIN st.card_elements
                   THEN LET d == delete(st, st.card_elements[point_id], stale_raises)
                        IN  IF d.raised THEN d
                            ELSE [d EXCEPT !.card_elements = Without(@, point_id),
                                           !.ops.removed = Append(@, point_id)]
                   ELSE st
         IN  remove_points(s1, Tail(points_to_remove), stale_raises)

\* ui.py:154-179; points_by_id is the mirror of before the call throughout
RECURSIVE update_or_add(_, _, _)
update_or_add(st, points, stale_raises) ==
    IF points = <<>> \/ st.raised THEN st
    ELSE LET point == Head(points)
             point_id == point.id
             is_new == point_id \notin DOMAIN st.points_by_id
             has_changed == /\ ~is_new
                            /\ Shown(point) # Shown(st.points_by_id[point_id])
             created == create_control_card(point)
             add(s, log) ==
                 IF created.raised THEN [s EXCEPT !.raised = TRUE]
                 ELSE [s EXCEPT !.control_cards.children = @ \cup {created.card},
                                !.card_elements = With(@, point_id, created.card),
                                !.ops = log]
             s1 == IF is_new
                   THEN IF st.control_cards.made
                        THEN add(st, [st.ops EXCEPT !.created = Append(@, point_id)])
                        ELSE st
                   ELSE IF has_changed /\ point_id \in DOMAIN st.card_elements
                   THEN LET d == delete(st, st.card_elements[point_id], stale_raises)
                        IN  IF d.raised THEN d
                            ELSE add(d, [d.ops EXCEPT !.redrawn = Append(@, point_id)])
                   ELSE st
         IN  update_or_add(s1, Tail(points), stale_raises)

\* ui.py:112-194, the body of the try
process_response(st, response, callback_ok, stale_raises, first) ==
    IF response.kind = "error" THEN [st EXCEPT !.raised = TRUE]
    ELSE IF response.kind = "text"
    THEN LET s1 == [clear(st, "invalid") EXCEPT !.result = "invalid"]
         IN  IF callback_ok THEN s1 ELSE [s1 EXCEPT !.raised = TRUE]
    ELSE LET points == response.points
             new == new_points_by_id(points)
         IN  IF points = <<>> /\ st.control_cards.made
             THEN [clear(st, "empty") EXCEPT
                      !.ops.removed = InOrder(Rendered(st), first),
                      !.card_elements = <<>>, !.points_by_id = <<>>,
                      !.result = "applied"]
             ELSE LET s1 == remove_points(st,
                                InOrder(DOMAIN st.points_by_id \ DOMAIN new, first),
                                stale_raises)
                      s2 == update_or_add(s1, points, stale_raises)
                  IN  IF s2.raised THEN s2
                      ELSE IF callback_ok
                      THEN [s2 EXCEPT !.points_by_id = new, !.result = "applied"]
                      ELSE [s2 EXCEPT !.points_by_id = new, !.raised = TRUE]

\* refresh_dashboard with a cooldown test that also drops the call made
\* exactly refresh_cooldown after the last one
refresh_dashboard_late(st, current_time, response, callback_ok, stale_raises, first) ==
    IF current_time - st.last_refresh_time <= refresh_cooldown
    THEN [st EXCEPT !.ops = NoOps, !.result = "dropped"]
    ELSE LET s0 == [st EXCEPT !.last_refresh_time = current_time, !.ops = NoOps,
                              !.fetched = response]
             s1 == process_response(s0, response, callback_ok, stale_raises, first)
         IN  IF s1.raised
             THEN [clear(s1, "error") EXCEPT !.raised = FALSE, !.result = "failed"]
             ELSE s1

\* ui.py:103-207
refresh_dashboard(st, current_time, response, callback_ok, stale_raises, first) ==
    IF current_time - st.last_refresh_time < refresh_cooldown
    THEN [st EXCEPT !.ops = NoOps, !.result = "dropped"]
    ELSE LET s0 == [st EXCEPT !.last_refresh_time = current_time, !.ops = NoOps,
                              !.fetched = response]
             s1 == process_response(s0, response, callback_ok, stale_raises, first)
         IN  IF s1.raised
             THEN [clear(s1, "error") EXCEPT !.raised = FALSE, !.result = "failed"]
             ELSE s1

----------------------------------------------------------------------------
(* ui.connect_websocket.  Every page load adds a repeating timer that calls *)
(* it (ui.py:1027), all on the one ui_state of the module, and the function *)
(* adds repeating timers of its own when a connection fails or ends; a      *)
(* timer starts its next call after the last one returned.  The timers      *)
(* added for one reason are told apart no further.                          *)

\* the 0.1 s timers of two pages
Timers == {"t1", "t2"}

\* ui.py:961-968: the test of connected_websocket, up to the await of
\* websockets.connect; with a connection held the call returns at once
ConnectBegin(t) ==
    /\ t \in Timers \cup ui_state.timers
    /\ t \notin ui_state.connecting
    /\ ~ui_state.connected_websocket
    /\ ui_state' = [ui_state EXCEPT !.connecting = @ \cup {t}]
    /\ UNCHANGED <<database, manager, sockets, tasks, sched, now, probe>>

\* ui.py:968-986: websockets.connect returns; the connection is assigned
\* and a listener task is created
ConnectDone(t) ==
    /\ t \in ui_state.connecting
    /\ ui_state' = [ui_state EXCEPT !.connecting = @ \ {t},
                                    !.connected_websocket = TRUE,
                                    !.connections = @ + 1,
                                    !.listeners = @ + 1]
    /\ UNCHANGED <<database, manager, sockets, tasks, sched, now, probe>>

\* ui.py:988-992: websockets.connect raises; ui.timer(10.0, ...)
ConnectFailed(t) ==
    /\ t \in ui_state.connecting
    /\ ui_state' = [ui_state EXCEPT !.connecting = @ \ {t},
                                    !.connected_websocket = FALSE,
                                    !.timers = @ \cup {"t10"}]
    /\ UNCHANGED <<database, manager, sockets, tasks, sched, now, probe>>

\* ui.py:971-983: recv raises on a connection that the server closed; the
\* listener leaves its loop, clears connected_websocket and adds
\* ui.timer(5.0, ...)
ListenerExit ==
    /\ ui_state.listeners > 0
    /\ ui_state' = [ui_state EXCEPT !.listeners = @ - 1,
                                    !.connections = @ - 1,
                                    !.connected_websocket = FALSE,
                                    !.timers = @ \cup {"t5"}]
    /\ UNCHANGED <<database, manager, sockets, tasks, sched, now, probe>>

----------------------------------------------------------------------------
(* The classifier on its own: a point is drawn, calculate_status is applied *)

MaxProbe == 202

\* -1.0 .. 101.0 in steps of 0.5
ProbeNums == {5 * k : k \in -2 .. MaxProbe}
ProbeBounds == {None, Num(T(0)), Num(T(20)), Num(T(100))}
ProbeValues == {None, BadValue} \cup {Num(n) : n \in ProbeNums}

ProbePoint(value, min_value, max_value) ==
    ControlPoint("p1", value, "", min_value, max_value, None, "unknown", "sensor")

NoProbe == [point |-> ProbePoint(None, None, None), status |-> "unset"]

\* models.py:76-78, the defaults of SystemSettings
DefaultSettings == SystemSettings(5, 30)

\* MemoryDatabase.__init__ when load_data finds no file
EmptyDatabase ==
    [control_points |-> <<>>, objects |-> <<>>, control_groups |-> <<>>,
     historical_data |-> <<>>, system_settings |-> DefaultSettings]

NoConnections == [active_connections |-> <<>>]

InitSched ==
    [pc |-> "ready", delay |-> 0, settings |-> DefaultSettings, issued |-> 0,
     raised |-> FALSE, stop_requested |-> FALSE, loops |-> 1]

ProbeInit ==
    \E v \in ProbeValues, lo \in ProbeBounds, hi \in ProbeBounds :
        probe = [point |-> ProbePoint(v, lo, hi), status |-> "unset"]

Classify ==
    /\ probe.status = "unset"
    /\ probe' = [probe EXCEPT !.status = calculate_status(probe.point)]
    /\ UNCHANGED <<database, manager, sockets, tasks, sched, now, ui_state>>

ClassifyInit ==
    /\ ProbeInit
    /\ database = EmptyDatabase
    /\ manager = NoConnections
    /\ sockets = [w \in Conns |-> NoSocket]
    /\ tasks = [t \in TaskIds |-> IdleTask]
    /\ sched = InitSched
    /\ now = 0
    /\ ui_state = NewUIState

ClassifyNext == Classify

SpecClassify == ClassifyInit /\ [][ClassifyNext]_vars

\* C6: for a numeric value and min < max, calculate_status returns error when
\* value <= min or value >= max, else alarm when the value is within 5% of the
\* range of a bound, else warning when it is within 10%, else normal, all
\* comparisons inclusive; unknown when the value or a bound is absent; and on
\* [0, 100] the values 50, 94, 96, 100 give normal, warning, alarm, error.
C6_StatusRule ==
    (probe.status # "unset" /\ probe.point.value # BadValue) =>
        LET p == probe.point
        IN  IF p.value = None \/ p.min_value = None \/ p.max_value = None
            THEN probe.status = "unknown"
            ELSE LET v == p.value[2]
                     lo == p.min_value[2]
                     hi == p.max_value[2]
                     near(pct) == \/ 100 * (v - lo) <= pct * (hi - lo)
                                  \/ 100 * (hi - v) <= pct * (hi - lo)
                 IN  /\ lo < hi =>
                            probe.status =
                                IF v <= lo \/ v >= hi THEN "error"
                                ELSE IF near(5) THEN "alarm"
                                ELSE IF near(10) THEN "warning"
                                ELSE "normal"
                     /\ (lo = T(0) /\ hi = T(100)) =>
                            /\ v = T(50) => probe.status = "normal"
                            /\ v = T(94) => probe.status = "warning"
                            /\ v = T(96) => probe.status = "alarm"
                            /\ v = T(100) => probe.status = "error"
                            /\ v \in {T(10), T(90)} => probe.status = "warning"

\* a value exactly at warn_high of [0, 100] has been classified
C6_Witness ==
    /\ probe.status = "warning"
    /\ probe.point.value = Num(T(90))
    /\ probe.point.min_value = Num(T(0))
    /\ probe.point.max_value = Num(T(100))

----------------------------------------------------------------------------
(* The commands, the WebSocket handler and the simulation task on one       *)
(* point table.                                                             *)

MaxTime == 1
MaxHistory == 1

\* no history list is longer than n
HistoryWithin(n) ==
    \A k \in DOMAIN database.historical_data : Len(database.historical_data[k]) <= n

DbIds == {"p1"}

\* request bodies as pydantic hands them to the handlers: value and bounds
\* are floats or None, status and type are enum values
DbBodies ==
    {ControlPoint(id, body[1], "", Num(T(0)), Num(T(100)), None, body[2], body[3]) :
        id \in DbIds,
        body \in {<<None, "unknown", "sensor">>, <<None, "alarm", "actuator">>,
                  <<Num(T(100)), "unknown", "actuator">>, <<Num(T(100)), "normal", "sensor">>}}

\* the "value" of an update_value message: any JSON value
DbWsValues == {Num(T(50)), BadValue}

DbDraws == {0}
DbConns == {"w1"}

DbInit ==
    /\ database = [EmptyDatabase EXCEPT !.control_groups = [g \in GroupIds |-> <<"p1", "p2", "p1">>]]
    /\ manager = NoConnections
    /\ sockets = [w \in Conns |-> NoSocket]
    /\ tasks = [t \in TaskIds |-> IdleTask]
    /\ sched = InitSched
    /\ now = 0
    /\ probe = NoProbe
    /\ ui_state = NewUIState

DbNext ==
    \/ \E r \in RestTasks, body \in DbBodies : CreatePoint(r, body)
    \/ \E r \in RestTasks, k \in DbIds, body \in DbBodies :
           HistoryWithin(MaxHistory - 1) /\ UpdatePoint(r, k, body)
    \/ \E r \in RestTasks, k \in DbIds : DeletePoint(r, k)
    \/ \E r \in RestTasks : RestSendComplete(r)
    \/ \E w \in DbConns : WsConnect(w)
    \/ \E w \in DbConns, k \in DbIds, v \in DbWsValues :
           HistoryWithin(MaxHistory - 1) /\ WsUpdateValue(w, k, v)
    \/ \E w \in DbConns : WsSendComplete(w)
    \/ \E w \in DbConns : WsReplySent(w)
    \/ \E draws \in [1 .. Len(database.control_points) -> DbDraws] :
           HistoryWithin(MaxHistory - 1) /\ SchedTick(draws)
    \/ SchedSendComplete
    \/ SchedWake
    \/ now < MaxTime /\ ClockTick

Spec == DbInit /\ [][DbNext]_vars

\* C1: every stored point's status is calculate_status of its own value and
\* bounds; a stored point without a value has status unknown.
C1_StatusConsistent ==
    \A k \in Keys(database) :
        LET point == get_control_point(database, k)
        IN  point.status = calculate_status(point)

\* C10: an update_value command that fails (the handler goes on to send its
\* error reply) leaves the point table and the history as they were.
C10_FailedSetValueChangesNothing ==
    [][\A w \in Conns :
          (sockets[w].pc = "receive" /\ sockets'[w].pc = "reply") =>
              database' = database]_vars

\* C13: after a delete of point k that succeeds, no group's point list
\* contains k, whatever the group lists looked like.
C13_DeleteCascades ==
    [][\A k \in PointIds :
          (HasPoint(database, k) /\ ~HasPoint(database', k)) =>
              \A g \in DOMAIN database'.control_groups :
                  k \notin Range(database'.control_groups[g])]_vars

\* C14: an update, a delete or an update_value for an id that is not in the
\* point table changes no point, group or history record and broadcasts
\* nothing; the update and the delete answer 404.
C14_UnknownIdChangesNothing ==
    [][\A k \in DbIds :
          ~HasPoint(database, k) =>
              /\ \A r \in RestTasks, body \in DbBodies :
                     UpdatePoint(r, k, body) =>
                         /\ database' = database
                         /\ tasks'[r].pc = "idle" /\ tasks'[r].message = NoMessage
                         /\ tasks'[r].response = 404
              /\ \A r \in RestTasks :
                     DeletePoint(r, k) =>
                         /\ database' = database
                         /\ tasks'[r].pc = "idle" /\ tasks'[r].message = NoMessage
                         /\ tasks'[r].response = 404
              /\ \A w \in DbConns, v \in DbWsValues :
                     WsUpdateValue(w, k, v) =>
                         /\ database' = database
                         /\ tasks' = tasks
                         /\ sockets' = sockets]_vars

\* a request for an id that is not in the table was answered 404
C14_Witness ==
    /\ ~HasPoint(database, "p1")
    /\ \E r \in RestTasks : tasks[r].response = 404

\* C18: every operation that sets a point's value to a number (a create with
\* a value, an update, an update_value, a sensor advance of a sweep) appends
\* one history record carrying that value for the point id, and no step
\* takes records away while the retention limit is not reached.
C18_ValueWritesAreRecorded ==
    [][\A k \in PointIds :
          LET old == HistoryOf(database, k)
              new == HistoryOf(database', k)
          IN  /\ (/\ HasPoint(database', k)
                  /\ IsNum(get_control_point(database', k).value)
                  /\ (~HasPoint(database, k) \/ Triple(database', k) # Triple(database, k))) =>
                     /\ Len(new) = Len(old) + 1
                     /\ new[Len(new)].value = get_control_point(database', k).value
              /\ Len(new) <= max_records(database'.system_settings) =>
                     /\ Len(new) >= Len(old)
                     /\ SubSeq(new, 1, Len(old)) = old]_vars

\* C19: an update_value with a number for a stored point stores the value
\* with the status calculated from it and the time of the step, appends
\* exactly one history record (time, value) for the id, and begins exactly
\* one broadcast of an update envelope whose data is the whole updated point.
C19_SetValueRoutesThrough ==
    [][\A w \in DbConns, k \in DbIds, v \in DbWsValues :
          (HasPoint(database, k) /\ IsNum(v) /\ WsUpdateValue(w, k, v)) =>
              LET old == get_control_point(database, k)
                  point == get_control_point(database', k)
              IN  /\ point = [old EXCEPT !.value = v, !.timestamp = Num(now),
                                         !.status = calculate_status(point)]
                  /\ HistoryOf(database', k) =
                         Append(HistoryOf(database, k), [timestamp |-> now, value |-> v])
                  /\ tasks'[w].message = [action |-> "update", data |-> point]
                  /\ tasks'[w].log = <<>>
                  /\ tasks'[w].pc = "sending"]_vars

\* an update_value with 50 was stored, recorded and is being broadcast
C19_Witness ==
    /\ HasPoint(database, "p1")
    /\ get_control_point(database, "p1").value = Num(T(50))
    /\ get_control_point(database, "p1").status = "normal"
    /\ \E i \in DOMAIN HistoryOf(database, "p1") :
           HistoryOf(database, "p1")[i].value = Num(T(50))
    /\ \E w \in DbConns :
           /\ tasks[w].pc = "sending"
           /\ tasks[w].message = [action |-> "update", data |-> get_control_point(database, "p1")]

\* C30: every envelope handed to broadcast has an action among create,
\* update, delete and simulate and a data field: a whole point for create
\* and update, the id alone for delete, a timestamp for simulate.
C30_EnvelopeShape ==
    \A t \in TaskIds :
        tasks[t].message # NoMessage =>
            LET message == tasks[t].message
                PointFields == DOMAIN ControlPoint("", None, "", None, None, None,
                                                   "unknown", "sensor")
            IN  /\ message.action \in {"create", "update", "delete", "simulate"}
                /\ "data" \in DOMAIN message
                /\ message.action \in {"create", "update"} =>
                       DOMAIN message.data = PointFields
                /\ message.action = "delete" => DOMAIN message.data = {"id"}
                /\ message.action = "simulate" => message.data \in Int

----------------------------------------------------------------------------
(* One point updated over REST again and again under a retention of 0 or 1  *)
(* days, while the wall clock may be set back.                              *)

MaxDays == 1

HistoryBody ==
    ControlPoint("p1", Num(T(50)), "", Num(T(0)), Num(T(100)), None, "unknown", "actuator")

HistoryDatabase(days) ==
    [EmptyDatabase EXCEPT
        !.control_points = <<[key |-> "p1", obj |-> 1]>>,
        !.objects = <<HistoryBody>>,
        !.system_settings = SystemSettings(5, days)]

HistoryInit ==
    /\ \E days \in 0 .. MaxDays : database = HistoryDatabase(days)
    /\ manager = NoConnections
    /\ sockets = [w \in Conns |-> NoSocket]
    /\ tasks = [t \in TaskIds |-> IdleTask]
    /\ sched = InitSched
    /\ now = 1
    /\ probe = NoProbe
    /\ ui_state = NewUIState

\* a history is followed until it is longer than max_records
HistoryNext ==
    \/ \E r \in RestTasks :
           /\ HistoryWithin(max_records(database.system_settings))
           /\ UpdatePoint(r, "p1", HistoryBody)
    \/ ClockBack

SpecHistory == HistoryInit /\ [][HistoryNext]_vars

\* C4: after any history append for a point id the number of records stored
\* for the id is at most max_records = retention_days * 24 * 12, for every
\* non-negative retention_days, 0 included.
C4_HistoryWithinRetention ==
    [][\A k \in PointIds :
          HistoryOf(database', k) # HistoryOf(database, k) =>
              Len(HistoryOf(database', k)) <= max_records(database'.system_settings)]_vars

\* C5: when an append makes the record count exceed max_records, the records
\* kept are the latest ones in chronological order: the dropped record is
\* not later than any record kept, and the kept records are ordered by
\* timestamp.
C5_KeepsLatestInOrder ==
    [][\A k \in PointIds :
          LET old == HistoryOf(database, k)
              new == HistoryOf(database', k)
          IN  (new # old /\ Len(new) = Len(old) /\ Len(old) > 0) =>
                  /\ \A i \in DOMAIN new : old[1].timestamp <= new[i].timestamp
                  /\ \A i \in 1 .. Len(new) - 1 :
                         new[i].timestamp <= new[i + 1].timestamp]_vars

\* C15: after every append the records stored for the point id are sorted
\* ascending by timestamp, also when the appended record is earlier than
\* the last one stored.
C15_SortedAfterAppend ==
    [][\A k \in PointIds :
          LET new == HistoryOf(database', k)
          IN  new # HistoryOf(database, k) =>
                  \A i \in 1 .. Len(new) - 1 :
                      new[i].timestamp <= new[i + 1].timestamp]_vars

----------------------------------------------------------------------------
(* The same point under a retention that PUT /settings raises and lowers    *)
(* between the updates, one to MaxRetentionDays days.                       *)

MaxRetentionDays == 2

RetentionInit ==
    /\ database = HistoryDatabase(MaxRetentionDays)
    /\ manager = NoConnections
    /\ sockets = [w \in Conns |-> NoSocket]
    /\ tasks = [t \in TaskIds |-> IdleTask]
    /\ sched = InitSched
    /\ now = 1
    /\ probe = NoProbe
    /\ ui_state = NewUIState

RetentionNext ==
    \/ \E r \in RestTasks :
           /\ HistoryWithin(max_records(database.system_settings))
           /\ UpdatePoint(r, "p1", HistoryBody)
    \/ \E days \in 1 .. MaxRetentionDays :
           UpdateSettings(SystemSettings(database.system_settings.refresh_rate, days))

SpecRetention == RetentionInit /\ [][RetentionNext]_vars

\* C33: in every state, the states right after PUT /settings lowered
\* data_retention_days included, every point id has at most
\* data_retention_days * 24 * 12 history records under the retention
\* configured in that state.
C33_HistoryWithinCurrentRetention ==
    \A k \in PointIds :
        Len(HistoryOf(database, k)) <= max_records(database.system_settings)

----------------------------------------------------------------------------
(* The history of one point without bounds, written by update_value         *)
(* messages under a clock that moves both ways, and queried over REST.      *)

MaxQueryTime == 2
MaxQueryHistory == 3

QueryPoint ==
    ControlPoint("p1", None, "", None, None, None, "unknown", "actuator")

QueryDatabase ==
    [EmptyDatabase EXCEPT
        !.control_points = <<[key |-> "p1", obj |-> 1]>>,
        !.objects = <<QueryPoint>>]

QueryWsValues == {Num(T(10)), Num(T(20)), BadValue}
QueryTimes == {None} \cup {Num(t) : t \in 0 .. MaxQueryTime}
QueryConns == {"w1"}

QueryInit ==
    /\ database = QueryDatabase
    /\ manager = NoConnections
    /\ sockets = [w \in Conns |-> NoSocket]
    /\ tasks = [t \in TaskIds |-> IdleTask]
    /\ sched = InitSched
    /\ now = 0
    /\ probe = NoProbe
    /\ ui_state = NewUIState

QueryNext ==
    \/ \E w \in QueryConns : WsConnect(w)
    \/ \E w \in QueryConns, v \in QueryWsValues :
           HistoryWithin(MaxQueryHistory - 1) /\ WsUpdateValue(w, "p1", v)
    \/ \E w \in QueryConns : WsSendComplete(w)
    \/ \E r \in RestTasks, k \in PointIds, start_time \in QueryTimes, end_time \in QueryTimes :
           GetHistory(r, k, start_time, end_time)
    \/ \E r \in RestTasks : DeletePoint(r, "p1")
    \/ \E r \in RestTasks : RestSendComplete(r)
    \/ now < MaxQueryTime /\ ClockTick
    \/ ClockBack

SpecQuery == QueryInit /\ [][QueryNext]_vars

\* the records stored for k whose timestamp is within the bounds given
Wanted(k, start_time, end_time) ==
    SelectSeq(HistoryOf(database, k),
              LAMBDA r : /\ (start_time = None \/ start_time[2] <= r.timestamp)
                         /\ (end_time = None \/ r.timestamp <= end_time[2]))

\* C16: a history query for a stored point returns exactly the records of
\* the id with start <= timestamp <= end, an omitted bound being open, in
\* ascending timestamp order, as timestamps and values of equal length in
\* which values[i] was recorded at timestamps[i].
C16_QueryReturnsRange ==
    [][\A r \in RestTasks, k \in PointIds, start_time \in QueryTimes, end_time \in QueryTimes :
          (HasPoint(database, k) /\ GetHistory(r, k, start_time, end_time)) =>
              LET wanted == Wanted(k, start_time, end_time)
                  body == tasks'[r].body
              IN  /\ tasks'[r].response = 200
                  /\ body.point_id = k
                  /\ Len(body.timestamps) = Len(wanted)
                  /\ Len(body.values) = Len(wanted)
                  /\ \A i \in 1 .. Len(wanted) - 1 :
                         body.timestamps[i] <= body.timestamps[i + 1]
                  /\ \E f \in Permutations(1 .. Len(wanted)) :
                         \A i \in 1 .. Len(wanted) :
                             /\ body.timestamps[i] = wanted[f[i]].timestamp
                             /\ body.values[i] = wanted[f[i]].value]_vars

\* C17: a history query for an id unknown to the system answers with empty
\* timestamps and values, not with an error, and adds no entry to the
\* history store.
C17_UnknownIdQueryIsEmpty ==
    [][\A r \in RestTasks, k \in PointIds, start_time \in QueryTimes, end_time \in QueryTimes :
          (/\ ~HasPoint(database, k)
           /\ k \notin DOMAIN database.historical_data
           /\ GetHistory(r, k, start_time, end_time)) =>
              /\ tasks'[r].response = 200
              /\ tasks'[r].body = HistoricalData(k, <<>>, <<>>)
              /\ database'.historical_data = database.historical_data]_vars

\* C34: a history query, with or without start and end, leaves the history
\* store as it was: the records of every point id and their order.
C34_QueryLeavesStore ==
    [][\A r \in RestTasks, k \in PointIds, start_time \in QueryTimes, end_time \in QueryTimes :
          GetHistory(r, k, start_time, end_time) =>
              database'.historical_data = database.historical_data]_vars

----------------------------------------------------------------------------
(* The simulation task over two sensor points, with a client that sends     *)
(* update_value messages.                                                   *)

\* a sensor as load_data reads it from data/control_points.json
StoredSensor(id) ==
    ControlPoint(id, Num(T(50)), "", Num(T(0)), Num(T(100)), Num(0), "normal", "sensor")

SchedDatabase ==
    [EmptyDatabase EXCEPT
        !.control_points = <<[key |-> "p1", obj |-> 1], [key |-> "p2", obj |-> 2]>>,
        !.objects = <<StoredSensor("p1"), StoredSensor("p2")>>]

MaxSchedHistory == 2

SchedWsValues == {Num(T(50)), BadValue}
SchedDraws == {1}
SchedConns == {"w1"}
SchedSettings == {SystemSettings(1, 30), SystemSettings(5, 30)}

SchedInit ==
    /\ database = SchedDatabase
    /\ manager = NoConnections
    /\ sockets = [w \in Conns |-> NoSocket]
    /\ tasks = [t \in TaskIds |-> IdleTask]
    /\ sched = InitSched
    /\ now = 0
    /\ probe = NoProbe
    /\ ui_state = NewUIState

\* the model follows a run until a history list holds
\* MaxSchedHistory records
SweepEnabled == sched.pc = "ready" /\ HistoryWithin(MaxSchedHistory - 1)

SchedSteps ==
    \/ \E draws \in [1 .. Len(database.control_points) -> SchedDraws] :
           HistoryWithin(MaxSchedHistory - 1) /\ SchedTick(draws)
    \/ SchedSendComplete
    \/ SchedWake

SchedNext ==
    \/ SchedSteps
    \/ \E w \in SchedConns : WsConnect(w)
    \/ \E w \in SchedConns, k \in PointIds, v \in SchedWsValues :
           HistoryWithin(MaxSchedHistory - 1) /\ WsUpdateValue(w, k, v)
    \/ \E w \in SchedConns : WsSendComplete(w)
    \/ \E w \in SchedConns : WsReplySent(w)
    \/ \E settings \in SchedSettings : UpdateSettings(settings)
    \/ now < MaxTime /\ ClockTick

SpecSched == SchedInit /\ [][SchedNext]_vars

\* C26: when the simulation task starts to sleep after a sweep that did not
\* raise, the time it sleeps is the refresh_rate of the system settings
\* stored at that moment, wherever in the cycle the settings were updated.
C26_SleepUsesCurrentPeriod ==
    [][(/\ sched.pc # "sleep"
        /\ sched'.pc = "sleep"
        /\ ~sched'.raised) =>
           sched'.delay = database'.system_settings.refresh_rate]_vars

\* a sweep ran in this step
SweepRan == sched.pc = "ready" /\ sched'.pc # "ready"

\* the event loop runs the simulation task whenever it can run: its sleep
\* ends, its awaited sends return or raise, and the sweep at the top of the
\* loop is run (weak fairness of the sweep, its enabling condition written
\* out as SweepEnabled)
SpecSchedFair ==
    /\ SpecSched
    /\ WF_vars(SchedSendComplete \/ SchedWake)
    /\ ([]<>(~SweepEnabled) \/ []<><<SweepRan>>_vars)

\* the sensor points whose processing does not raise
SoundSensors ==
    {k \in Keys(database) :
        /\ get_control_point(database, k).type = "sensor"
        /\ get_control_point(database, k).value # BadValue}

\* C7: when processing one sensor point raises during a sweep, every other
\* sensor point is still advanced (a history record is appended for it and
\* its timestamp set) and the sweep still issues its simulate broadcast.
C7_SweepSurvivesPointFailure ==
    [][(SweepRan /\ SoundSensors # Keys(database)) =>
          /\ \A k \in SoundSensors :
                /\ Len(HistoryOf(database', k)) = Len(HistoryOf(database, k)) + 1
                /\ get_control_point(database', k).timestamp = Num(now)
          /\ sched'.issued = 1]_vars

\* C9: every sweep issues exactly one simulate broadcast, after all its
\* sensor points have been processed.
C9_OneBroadcastPerSweep ==
    [][SweepRan =>
          /\ sched'.issued = 1
          /\ tasks'[SchedTask].message = [action |-> "simulate", timestamp |-> now]]_vars

\* C11: when a sweep and an external update_value of the same point follow
\* each other in any order, no update is lost or applied in part: a step
\* that changes the (value, status, timestamp) of a point written before
\* leaves the whole triple of one writer (the timestamp of the step, the
\* status calculated from the value stored) and one more history record
\* carrying that value.
C11_WritesAreWhole ==
    [][\A k \in PointIds :
          (/\ HasPoint(database, k) /\ HasPoint(database', k)
           /\ Len(HistoryOf(database, k)) > 0
           /\ Triple(database', k) # Triple(database, k)) =>
              LET point == get_control_point(database', k)
              IN  /\ point.timestamp = Num(now)
                  /\ point.status = calculate_status(point)
                  /\ HistoryOf(database', k) =
                         Append(HistoryOf(database, k),
                                [timestamp |-> now, value |-> point.value])]_vars

\* no history list has room left: the model follows the run no further
HistoryFull == ~HistoryWithin(MaxSchedHistory - 1)

\* C8: no exception raised inside a sweep ends the loop: the task is never
\* finished, a failed sweep is followed by the 5 second sleep, and the top
\* of the loop is reached and left again and again.
C8_LoopNeverEnds ==
    /\ [](sched.pc \in {"ready", "broadcast", "sleep"})
    /\ [][(SweepRan /\ sched'.raised) => (sched'.pc = "sleep" /\ sched'.delay = 5)]_vars
    /\ \/ ([]<>(sched.pc = "ready") /\ []<>(sched.pc # "ready"))
       \/ <>[]HistoryFull

\* a sweep has failed under a refresh rate of 1 second, the 5 second sleep
\* is over and the loop is at its top again
C8_Witness ==
    /\ sched.raised
    /\ sched.settings.refresh_rate = 1
    /\ sched.delay = 5
    /\ sched.pc = "ready"

----------------------------------------------------------------------------
(* Two broadcasters, the REST update of a point and the simulation task,    *)
(* among connecting and disconnecting clients, under a clock that only      *)
(* moves forward.  The simulation task is followed through one sweep.       *)

OrderBody ==
    ControlPoint("p1", None, "", None, None, None, "unknown", "actuator")

OrderDatabase ==
    [EmptyDatabase EXCEPT
        !.control_points = <<[key |-> "p1", obj |-> 1]>>,
        !.objects = <<OrderBody>>]

OrderInit ==
    /\ database = OrderDatabase
    /\ manager = NoConnections
    /\ sockets = [w \in Conns |-> NoSocket]
    /\ tasks = [t \in TaskIds |-> IdleTask]
    /\ sched = InitSched
    /\ now = 0
    /\ probe = NoProbe
    /\ ui_state = NewUIState

\* send_text calls on one connection return in the order they were made: a
\* run is followed no further once two sends to one connection are awaited
OnlySendTo(t) ==
    \A u \in TaskIds \ {t} : ~(tasks[u].pc = "sending" /\ tasks[u].cur = tasks[t].cur)

OrderNext ==
    \/ \E w \in Conns : WsConnect(w)
    \/ \E w \in Conns : PeerClose(w)
    \/ \E w \in Conns : WsDisconnected(w)
    \/ \E r \in RestTasks : UpdatePoint(r, "p1", OrderBody)
    \/ \E r \in RestTasks : OnlySendTo(r) /\ RestSendComplete(r)
    \/ \E draws \in [1 .. Len(database.control_points) -> DbDraws] : SchedTick(draws)
    \/ OnlySendTo(SchedTask) /\ SchedSendComplete
    \/ now < MaxTime /\ ClockTick

SpecOrder == OrderInit /\ [][OrderNext]_vars

\* C12: an observer that receives two envelopes receives them in the order
\* they were generated: no send_text returns for an envelope whose observer
\* had, before that send began, received an envelope generated at a later
\* time.
C12_DeliveryInGenerationOrder ==
    [][\A t \in TaskIds :
          (/\ tasks[t].pc = "sending"
           /\ Len(tasks'[t].log) = Len(tasks[t].log) + 1
           /\ tasks'[t].log[Len(tasks'[t].log)].ok
           /\ GeneratedAt(tasks[t].message) # NoTime) =>
              tasks[t].seen <= GeneratedAt(tasks[t].message)]_vars

----------------------------------------------------------------------------
(* Broadcasts among connecting and disconnecting observers: the simulation  *)
(* task sweeps an empty point table and broadcasts, while WebSockets        *)
(* connect, lose their client and are unregistered.                         *)

NoDraws == <<>>

BroadcastInit ==
    /\ database = EmptyDatabase
    /\ manager = NoConnections
    /\ sockets = [w \in Conns |-> NoSocket]
    /\ tasks = [t \in TaskIds |-> IdleTask]
    /\ sched = InitSched
    /\ now = 0
    /\ probe = NoProbe
    /\ ui_state = NewUIState

BroadcastNext ==
    \/ \E w \in Conns : WsConnect(w)
    \/ \E w \in Conns : PeerClose(w)
    \/ \E w \in Conns : WsDisconnected(w)
    \/ \E w \in Conns : WsMalformed(w)
    \/ \E w \in Conns : WsReplySent(w)
    \/ \E w \in Conns : WsReplyDisconnected(w)
    \/ \E w \in Conns : WsReplyRaised(w)
    \/ SchedTick(NoDraws)
    \/ SchedSendComplete
    \/ SchedWake

SpecBroadcast == BroadcastInit /\ [][BroadcastNext]_vars

\* C28: a WebSocket whose handler has ended, on whatever path, is no more in
\* active_connections, so that no later broadcast sends to it.
C28_EndedHandlerIsUnregistered ==
    \A w \in Conns :
        sockets[w].pc = "ended" =>
            \A i \in DOMAIN manager.active_connections :
                manager.active_connections[i] # w

\* the sends to c that the latest broadcast of task t made
SendsTo(t, c) == {i \in DOMAIN tasks[t].log : tasks[t].log[i].conn = c}

Completed(t) == tasks[t].pc = "idle" /\ tasks[t].message # NoMessage

\* C2: a broadcast over a registry that does not change while it runs sends
\* the envelope exactly once to every registered observer, whether that send
\* returns or raises, and never raises itself.
C2_BroadcastSurvivesSendFailure ==
    \A t \in TaskIds :
        /\ tasks[t].pc \in {"idle", "sending"}
        /\ (Completed(t) /\ ~tasks[t].changed) =>
               /\ \A c \in tasks[t].stayed : Cardinality(SendsTo(t, c)) = 1
               /\ Len(tasks[t].log) = Cardinality(tasks[t].stayed)

\* Scenario F: three observers, the send to one of them raised, the other
\* two received the envelope
C2_Witness ==
    /\ Completed(SchedTask)
    /\ ~tasks[SchedTask].changed
    /\ tasks[SchedTask].stayed = Conns
    /\ Cardinality({i \in DOMAIN tasks[SchedTask].log : ~tasks[SchedTask].log[i].ok}) = 1
    /\ Cardinality({i \in DOMAIN tasks[SchedTask].log : tasks[SchedTask].log[i].ok}) = 2

\* C3: every observer registered for the whole of a broadcast is sent the
\* envelope exactly once, also when others register or unregister meanwhile.
C3_NoSkipUnderChurn ==
    \A t \in TaskIds :
        Completed(t) => \A c \in tasks[t].stayed : Cardinality(SendsTo(t, c)) = 1

\* C31: broadcast never changes the registry: a step in which a broadcast
\* begins, or in which one of its sends returns or raises, leaves
\* active_connections as it was; and an observer whose client is gone, so
\* that every send to it raises, is attempted by every broadcast during which
\* it is registered, until the disconnect path removes it.
C31_BroadcastKeepsRegistry ==
    [][\A t \in TaskIds :
           (tasks'[t].log # tasks[t].log \/ tasks'[t].message # tasks[t].message) =>
               /\ manager' = manager
               /\ Completed(t)' =>
                      \A c \in tasks'[t].stayed :
                          sockets[c].peer = "gone" => SendsTo(t, c)' # {}]_vars

----------------------------------------------------------------------------
(* The dashboard on its own: pages are opened, time passes, and             *)
(* refresh_dashboard is called by the page timers and buttons, each call    *)
(* with the response its fetch gets.  A call is one step: a second call     *)
(* that starts while the first awaits its fetch is inside the cooldown.     *)

MaxUiTime == 21

UiIds == {"p1", "p2"}
UiValues == {None, Num(T(50))}
UiStamps == {1, 2}

\* p1 has no bounds, p2 is on [0, 100]; the status is the one the server
\* computes for the value
UiPoint(id, value, timestamp) ==
    LET lo == IF id = "p2" THEN Num(T(0)) ELSE None
        hi == IF id = "p2" THEN Num(T(100)) ELSE None
        p == ControlPoint(id, value, "", lo, hi, timestamp, "unknown", "actuator")
    IN  [p EXCEPT !.status = calculate_status(p)]

UiPointsOf(id) == {UiPoint(id, v, t) : v \in UiValues, t \in UiStamps}

\* the point table in insertion order, p1 before p2
Snapshots ==
    {<<>>} \cup {<<a>> : a \in UiPointsOf("p1") \cup UiPointsOf("p2")}
           \cup {<<a, b>> : a \in UiPointsOf("p1"), b \in UiPointsOf("p2")}

Responses == {JsonList(S) : S \in Snapshots} \cup {JsonOther, NotJson, NoResponse}

Refresh(response, callback_ok, first) ==
    /\ ui_state' = refresh_dashboard(ui_state, now, response, callback_ok,
                                     ui_state.stale_raises, first)
    /\ UNCHANGED <<database, manager, sockets, tasks, sched, now, probe>>

\* main.py:96-102, index: setup_layout builds the page of a new client
OpenPage ==
    /\ ui_state' = create_dashboard(ui_state)
    /\ UNCHANGED <<database, manager, sockets, tasks, sched, now, probe>>

UiWait(seconds) ==
    /\ now + seconds <= MaxUiTime
    /\ now' = now + seconds
    /\ UNCHANGED <<database, manager, sockets, tasks, sched, probe, ui_state>>

\* the first page is open; time.time() is far above the cooldown
UiInit ==
    /\ database = EmptyDatabase
    /\ manager = NoConnections
    /\ sockets = [w \in Conns |-> NoSocket]
    /\ tasks = [t \in TaskIds |-> IdleTask]
    /\ sched = InitSched
    /\ now = refresh_cooldown
    /\ probe = NoProbe
    /\ \E stale_raises \in BOOLEAN :
          ui_state = [create_dashboard(NewUIState) EXCEPT
                         !.stale_raises = stale_raises]

UiNext ==
    \/ \E response \in Responses, callback_ok \in BOOLEAN, first \in UiIds :
          Refresh(response, callback_ok, first)
    \/ OpenPage
    \/ \E seconds \in {1, refresh_cooldown} : UiWait(seconds)

SpecUi == UiInit /\ [][UiNext]_vars

\* how often an id is in a log
Count(log, id) == Cardinality({i \in DOMAIN log : log[i] = id})

\* C20: a call of refresh_dashboard that gets the list S while the mirror
\* is M and is not dropped by the cooldown creates one card for each id of
\* S not in M, removes one for each id of M not in S, redraws one for each
\* id of both whose (value, status, timestamp) differs and does nothing for
\* the other ids; after it points_by_id is S and the cards in the container
\* are those of the ids of S.
C20_SnapshotApplied ==
    [][\A response \in Responses, first \in UiIds :
          (/\ response.kind = "list"
           /\ now - ui_state.last_refresh_time >= refresh_cooldown
           /\ Refresh(response, TRUE, first)) =>
              LET S == new_points_by_id(response.points)
                  M == ui_state.points_by_id
                  ops == ui_state'.ops
              IN  /\ \A id \in UiIds :
                        /\ Count(ops.created, id) =
                              IF id \in DOMAIN S \ DOMAIN M THEN 1 ELSE 0
                        /\ Count(ops.removed, id) =
                              IF id \in DOMAIN M \ DOMAIN S THEN 1 ELSE 0
                        /\ Count(ops.redrawn, id) =
                              IF /\ id \in DOMAIN M \cap DOMAIN S
                                 /\ Shown(S[id]) # Shown(M[id])
                              THEN 1 ELSE 0
                  /\ ui_state'.points_by_id = S
                  /\ Rendered(ui_state') = DOMAIN S]_vars

\* C21: when a call of refresh_dashboard that is not dropped by the cooldown
\* gets the same list as the last call that was not dropped, it creates,
\* removes and redraws no card and leaves points_by_id and the cards in the
\* container as they were; the empty list is one such list.
C21_SameSnapshotTwice ==
    [][\A response \in Responses, first \in UiIds :
          (/\ response.kind = "list"
           /\ ui_state.fetched = response
           /\ ui_state.result \in {"applied", "failed", "dropped"}
           /\ now - ui_state.last_refresh_time >= refresh_cooldown
           /\ Refresh(response, TRUE, first)) =>
              /\ ui_state'.ops = NoOps
              /\ ui_state'.points_by_id = ui_state.points_by_id
              /\ ui_state'.control_cards = ui_state.control_cards]_vars

C23_FailedFetchKeepsMirror ==
    [][\A callback_ok \in BOOLEAN, first \in UiIds :
          (/\ now - ui_state.last_refresh_time >= refresh_cooldown
           /\ Refresh(NoResponse, callback_ok, first)) =>
              /\ ui_state'.notice = "error"
              /\ DOMAIN ui_state'.points_by_id = Rendered(ui_state')]_vars

----------------------------------------------------------------------------
(* The dashboard over three cooldown periods, with a fetch that fails in    *)
(* transport between fetches that succeed.  Every value is a number.        *)

MaxRetryTime == 30

RetryResponses ==
    {JsonList(S) : S \in {<<>>,
                          <<UiPoint("p1", Num(T(50)), 1)>>,
                          <<UiPoint("p1", Num(T(50)), 2)>>,
                          <<UiPoint("p1", Num(T(50)), 1), UiPoint("p2", Num(T(50)), 1)>>}}
        \cup {NoResponse}

RetryWait(seconds) ==
    /\ now + seconds <= MaxRetryTime
    /\ now' = now + seconds
    /\ UNCHANGED <<database, manager, sockets, tasks, sched, probe, ui_state>>

RetryNext ==
    \/ \E response \in RetryResponses, first \in UiIds : Refresh(response, TRUE, first)
    \/ OpenPage
    \/ \E seconds \in {1, refresh_cooldown} : RetryWait(seconds)

SpecRetry == UiInit /\ [][RetryNext]_vars

\* C35: when the last fetch failed in transport and the page shows the
\* error notice, the next call that gets a list S and completes leaves one
\* card in the container for every point of S, the points whose value,
\* status and timestamp are those of the mirror included.
C35_AllRenderedAfterFailure ==
    [][(/\ ui_state.notice = "error"
        /\ ui_state.fetched.kind = "error"
        /\ \E first \in UiIds : Refresh(ui_state'.fetched, TRUE, first)
        /\ ui_state'.fetched.kind = "list"
        /\ ui_state'.result = "applied") =>
           Rendered(ui_state') =
               {ui_state'.fetched.points[i].id : i \in DOMAIN ui_state'.fetched.points}]_vars

\* C36: a call of refresh_dashboard made while the page shows the Retry
\* button of a call that failed is not dropped by the cooldown: it fetches,
\* however soon after the failed call it is made.
C36_RetryIsNotDropped ==
    [][(/\ ui_state.result = "failed"
        /\ ui_state.notice = "error"
        /\ \E first \in UiIds : Refresh(ui_state'.fetched, TRUE, first)) =>
           ui_state'.result # "dropped"]_vars

----------------------------------------------------------------------------
(* The observer side of the WebSocket: two pages are open, the timers call  *)
(* connect_websocket, connections are made, refused and closed by the       *)
(* server.                                                                  *)

MaxConnections == 2

WsClientNext ==
    \/ \E t \in Timers \cup {"t5", "t10"} :
           /\ ui_state.connections + Cardinality(ui_state.connecting) < MaxConnections
           /\ ConnectBegin(t)
    \/ \E t \in Timers \cup {"t5", "t10"} : ConnectDone(t)
    \/ \E t \in Timers \cup {"t5", "t10"} : ConnectFailed(t)
    \/ ListenerExit

SpecWsClient == UiInit /\ [][WsClientNext]_vars

\* C38: at most one client connection is open and at most one listener
\* runs for the ui_state, also while calls of connect_websocket overlap.
C38_OneConnectionOneListener ==
    /\ ui_state.connections <= 1
    /\ ui_state.listeners <= 1

----------------------------------------------------------------------------
(* The simulation task over a sensor and an actuator, while points are      *)
(* updated over REST with bodies of either type and either id.              *)

MaxSweepHistory == 2

StoredActuator(id) ==
    ControlPoint(id, Num(T(50)), "", Num(T(0)), Num(T(100)), Num(0), "normal", "actuator")

SweepDatabase ==
    [EmptyDatabase EXCEPT
        !.control_points = <<[key |-> "p1", obj |-> 1], [key |-> "p2", obj |-> 2]>>,
        !.objects = <<StoredSensor("p1"), StoredActuator("p2")>>]

\* request bodies of updatePoint: the id of the body is not compared with
\* the id of the path (api.py:71-86)
SweepBodies ==
    {ControlPoint(id, Num(T(50)), "", Num(T(0)), Num(T(100)), None, "unknown", type) :
        id \in PointIds, type \in {"sensor", "actuator"}}

SweepInit ==
    /\ database = SweepDatabase
    /\ manager = NoConnections
    /\ sockets = [w \in Conns |-> NoSocket]
    /\ tasks = [t \in TaskIds |-> IdleTask]
    /\ sched = InitSched
    /\ now = 0
    /\ probe = NoProbe
    /\ ui_state = NewUIState

SweepNext ==
    \/ \E r \in RestTasks, k \in PointIds, body \in SweepBodies :
           HistoryWithin(MaxSweepHistory - 1) /\ UpdatePoint(r, k, body)
    \/ \E r \in RestTasks : RestSendComplete(r)
    \/ \E w \in SchedConns : WsConnect(w)
    \/ \E draws \in [1 .. Len(database.control_points) -> SchedDraws] :
           HistoryWithin(MaxSweepHistory - 1) /\ SchedTick(draws)
    \/ SchedSendComplete
    \/ SchedWake
    \/ now < MaxTime /\ ClockTick

SpecSweep == SweepInit /\ [][SweepNext]_vars

\* C24: a sweep leaves every point whose type is not sensor in the table
\* with its value, status and timestamp, and appends no history record
\* under its id.
C24_SweepSkipsNonSensors ==
    [][SweepRan =>
          \A k \in Keys(database) :
              get_control_point(database, k).type # "sensor" =>
                  /\ HasPoint(database', k)
                  /\ get_control_point(database', k) = get_control_point(database, k)
                  /\ HistoryOf(database', k) = HistoryOf(database, k)]_vars

\* C32: every entry of the point table is stored under its own id, also
\* after an update of key k whose body carries another id.
C32_StoredUnderOwnId ==
    \A k \in Keys(database) : get_control_point(database, k).id = k

----------------------------------------------------------------------------
(* The same two points created, updated and deleted over REST, written by   *)
(* update_value messages and swept by the simulation task.                  *)

MaxDeleteHistory == 2

\* the body of createPoint and updatePoint: a sensor whose id is p1, also
\* in PUT /control-points/p2
DeleteBody ==
    ControlPoint("p1", Num(T(50)), "", Num(T(0)), Num(T(100)), None, "unknown", "sensor")

DeleteNext ==
    \/ \E r \in RestTasks : CreatePoint(r, DeleteBody)
    \/ \E r \in RestTasks, k \in PointIds :
           HistoryWithin(MaxDeleteHistory - 1) /\ UpdatePoint(r, k, DeleteBody)
    \/ \E r \in RestTasks : DeletePoint(r, "p1")
    \/ \E r \in RestTasks : RestSendComplete(r)
    \/ \E w \in SchedConns : WsConnect(w)
    \/ \E w \in SchedConns, k \in PointIds :
           HistoryWithin(MaxDeleteHistory - 1) /\ WsUpdateValue(w, k, Num(T(50)))
    \/ \E w \in SchedConns : WsSendComplete(w)
    \/ \E draws \in [1 .. Len(database.control_points) -> SchedDraws] :
           HistoryWithin(MaxDeleteHistory - 1) /\ SchedTick(draws)
    \/ SchedSendComplete
    \/ SchedWake

SpecDelete == SweepInit /\ [][DeleteNext]_vars

\* C37: an id that is not in the point table is put into it by createPoint
\* only: no sweep, no update_value and no updatePoint that follows a delete
\* of the id or runs between its steps adds the id again.
C37_OnlyCreateAdds ==
    [][\A k \in PointIds :
          (~HasPoint(database, k) /\ HasPoint(database', k)) =>
              \E r \in RestTasks : DeleteBody.id = k /\ CreatePoint(r, DeleteBody)]_vars

\* p1 was deleted before any write to it; a sweep then wrote the sensor
\* stored under p2 whose id is p1
C37_Witness ==
    /\ ~HasPoint(database, "p1")
    /\ HistoryOf(database, "p1") = <<>>
    /\ HasPoint(database, "p2")
    /\ get_control_point(database, "p2").id = "p1"
    /\ get_control_point(database, "p2").value # Num(T(50))
    /\ tasks[SchedTask].message.action = "simulate"

\* C40: a delete leaves the history store and the settings as they were,
\* the records of the deleted id included; a create leaves the history
\* store as it was, and every append, the first one after the id was
\* created again included, adds to the records already stored under the
\* id.
C40_DeleteKeepsHistory ==
    [][/\ \A r \in RestTasks, k \in PointIds :
              DeletePoint(r, k) =>
                  /\ database'.historical_data = database.historical_data
                  /\ database'.system_settings = database.system_settings
       /\ \A r \in RestTasks :
              CreatePoint(r, DeleteBody) =>
                  database'.historical_data = database.historical_data
       /\ \A k \in PointIds :
              LET old == HistoryOf(database, k)
                  new == HistoryOf(database', k)
              IN  /\ Len(new) >= Len(old)
                  /\ SubSeq(new, 1, Len(old)) = old]_vars

\* p1 was swept, deleted and created again, and swept once more while the
\* broadcast of the create is still suspended: both records are those of a
\* sweep of the value 50.0.  p2 was never updated with another id.
C40_Witness ==
    \E r \in RestTasks :
        /\ get_control_point(database, "p2").id = "p2"
        /\ tasks[r].pc = "sending"
        /\ tasks[r].message.action = "create"
        /\ Len(database.control_points) = 2
        /\ database.control_points[2].key = "p1"
        /\ Len(HistoryOf(database, "p1")) = 2
        /\ HistoryOf(database, "p1")[1].value = HistoryOf(database, "p1")[2].value
        /\ HistoryOf(database, "p1")[2].value = get_control_point(database, "p1").value
        /\ get_control_point(database, "p1").value # Num(T(50))

----------------------------------------------------------------------------
(* The simulator on its own: a sensor point and a random draw are chosen,   *)
(* generate_simulated_value is applied.                                     *)

SimPoint(value, unit, min_value, max_value) ==
    ControlPoint("p1", value, unit, min_value, max_value, None, "unknown", "sensor")

Unset == <<"unset", 0>>

SimInit ==
    \* values 0.0, 50.0, 99.5 and 100.0; bounds 0.0, 80.0 and 99.5, 100.0
    /\ \E v \in {None} \cup {Num(n) : n \in {T(0), T(50), 995, T(100)}},
          u \in {"", "degC", "rpm"},
          lo \in {None, Num(T(0)), Num(T(80))},
          hi \in {None, Num(995), Num(T(100))},
          r \in Draws :
           probe = [point |-> SimPoint(v, u, lo, hi), draw |-> r, value |-> Unset]
    /\ database = EmptyDatabase
    /\ manager = NoConnections
    /\ sockets = [w \in Conns |-> NoSocket]
    /\ tasks = [t \in TaskIds |-> IdleTask]
    /\ sched = InitSched
    /\ now = 0
    /\ ui_state = NewUIState

\* api.py:218
Simulate ==
    /\ probe.value = Unset
    /\ probe' = [probe EXCEPT !.value = generate_simulated_value(probe.point, probe.draw)]
    /\ UNCHANGED <<database, manager, sockets, tasks, sched, now, ui_state>>

SimNext == Simulate

SpecSimulate == SimInit /\ [][SimNext]_vars

\* C25: for a sensor point with both bounds known and min_value <= max_value
\* the value generate_simulated_value returns is within
\* [min_value, max_value], when the point had no value and when it had one.
C25_SimulatedValueInBounds ==
    (/\ probe.value # Unset
     /\ probe.point.min_value # None
     /\ probe.point.max_value # None
     /\ probe.point.min_value[2] <= probe.point.max_value[2]) =>
        /\ probe.point.min_value[2] <= probe.value[2]
        /\ probe.value[2] <= probe.point.max_value[2]

----------------------------------------------------------------------------
(* The simulation task over two sensors with one observer, asked to stop at *)
(* some moment of its cycle.                                                *)

MaxStopHistory == 2

StopNext ==
    \/ \E draws \in [1 .. Len(database.control_points) -> SchedDraws] :
           HistoryWithin(MaxStopHistory - 1) /\ SchedTick(draws)
    \/ SchedSendComplete
    \/ SchedWake
    \/ StopSimulation
    \/ \E w \in SchedConns : WsConnect(w)
    \/ now < MaxTime /\ ClockTick

SpecStop == SchedInit /\ [][StopNext]_vars

\* C27: once the simulation task was asked to stop, it starts no new sweep.
C27_StopsAfterShutdown ==
    [][sched.stop_requested => ~SweepRan]_vars

----------------------------------------------------------------------------
(* The same task while start_simulation is called again.                    *)

MaxLoops == 2

StartNext ==
    \/ \E draws \in [1 .. Len(database.control_points) -> SchedDraws] :
           HistoryWithin(MaxStopHistory - 1) /\ SchedTick(draws)
    \/ SchedSendComplete
    \/ SchedWake
    \/ sched.loops < MaxLoops /\ StartSimulation
    \/ \E w \in SchedConns : WsConnect(w)
    \/ now < MaxTime /\ ClockTick

SpecStart == SchedInit /\ [][StartNext]_vars

\* C39: at most one simulation task exists at any time: start_simulation
\* called while one runs creates no second one.
C39_OneSchedulerLoop == sched.loops <= 1

----------------------------------------------------------------------------
(* createPoint and updatePoint with bodies whose bounds are in order, equal *)
(* or reversed.                                                             *)

MaxBoundsHistory == 2

BoundsPairs == {<<T(0), T(100)>>, <<T(50), T(50)>>, <<T(100), T(0)>>}

BoundsBodies ==
    {ControlPoint("p1", v, "", Num(b[1]), Num(b[2]), None, "unknown", "actuator") :
        v \in {None, Num(T(50))}, b \in BoundsPairs}

Degenerate(body) ==
    /\ body.min_value # None
    /\ body.max_value # None
    /\ body.min_value[2] >= body.max_value[2]

BoundsNext ==
    \/ \E r \in RestTasks, body \in BoundsBodies : CreatePoint(r, body)
    \/ \E r \in RestTasks, body \in BoundsBodies :
           HistoryWithin(MaxBoundsHistory - 1) /\ UpdatePoint(r, "p1", body)
    \/ \E r \in RestTasks : DeletePoint(r, "p1")
    \/ \E r \in RestTasks : RestSendComplete(r)
    \/ \E w \in SchedConns : WsConnect(w)
    \/ now < MaxTime /\ ClockTick

SpecBounds == BroadcastInit /\ [][BoundsNext]_vars

\* C29: a createPoint or an updatePoint of an existing point whose body has
\* min_value >= max_value is not answered as a success and stores nothing.
C29_DegenerateBoundsReported ==
    [][\A r \in RestTasks, body \in BoundsBodies :
          (/\ Degenerate(body)
           /\ \/ CreatePoint(r, body)
              \/ HasPoint(database, "p1") /\ UpdatePoint(r, "p1", body)) =>
              /\ tasks'[r].response # 200
              /\ database' = database]_vars

====
